---- MODULE Spec2Model ----
(***************************************************************************)
(* Model of src/app.py: the Streamlit script that screens put options for  *)
(* a cash-secured-put seller.  One script run is a sequence of steps       *)
(* separated by the upstream requests it issues (stock.info,               *)
(* stock.options, stock.option_chain); the widgets of the sidebar are the  *)
(* user's inputs and every widget change starts a new run.                 *)
(*                                                                         *)
(* Numbers.  The script computes with IEEE doubles and so does the model:  *)
(* a double is kept as sign, exponent and 52 fraction bits, and division   *)
(* and multiplication round to nearest, ties to even, as the hardware      *)
(* does.  Prices, premiums and thresholds are integers below 2^17.         *)
(***************************************************************************)
EXTENDS Integers, Sequences, FiniteSets, TLC

\* ------------------------------------------------------------------ bounds
\* Largest number of expiration dates the feed lists for a ticker.
MaxExp == 2

\* ------------------------------------------------------------ value domains
\* A missing value: None in stock.info, NaN in a column of the chain.
Missing == -1

\* Expiration dates as the feed gives them ("YYYY-MM-DD"), kept as <<y, m, d>>.
AllDates == << <<2026, 1, 16>>, <<2026, 3, 30>>, <<2026, 6, 18>> >>

\* The instants datetime.now() may return, in increasing order.
Instants ==
  << [date |-> <<2026, 1, 15>>, secs |-> 43200],
     [date |-> <<2026, 1, 16>>, secs |-> 34200] >>

\* Put contracts of the feed (columns of opt.puts that the script reads).
K1 == [strike |-> 900, bid |-> 27, lastPrice |-> Missing, ask |-> 40,
       volume |-> 10, openInterest |-> 50]
K2 == [strike |-> 1000, bid |-> 0, lastPrice |-> 20, ask |-> 30,
       volume |-> 0, openInterest |-> 5]
K3 == [strike |-> 900, bid |-> 10, lastPrice |-> 60, ask |-> Missing,
       volume |-> 7, openInterest |-> 7]
K4 == [strike |-> 1015, bid |-> 90, lastPrice |-> 90, ask |-> 90,
       volume |-> 3, openInterest |-> 2]

\* Contracts the feed lists at an expiration date, in the order of its rows.
ListedAt(date) ==
  IF date = AllDates[1] THEN <<K2, K4>>
  ELSE IF date = AllDates[2] THEN <<K1, K3>>
  ELSE <<K1>>

\* stock.info answers: the three price fields the script looks at.
InfoResponses ==
  { [currentPrice |-> 1000, regularMarketPrice |-> 1450,
     previousClose |-> 1450],
    [currentPrice |-> Missing, regularMarketPrice |-> 1450,
     previousClose |-> 1000],
    [currentPrice |-> 0, regularMarketPrice |-> Missing,
     previousClose |-> 1000],
    [currentPrice |-> Missing, regularMarketPrice |-> 0,
     previousClose |-> Missing] }

\* Exceptions the feed raises (the text of the exception).
RateLimitError == "Too Many Requests. Rate limited."
FeedFailures == {RateLimitError, "Read timed out."}

\* What the Styler raises for row labels that are not unique; the text
\* depends on the pandas release.
StylerErrors ==
  {"Styler.apply and .map are not compatible with non-unique index or columns.",
   "style is not supported for non-unique indices."}

\* Raw text the user may type in the ticker box.
RawTickers == { <<>>, <<" ">>, <<"n", "v">>, <<" ", "N", "V", " ">> }

\* Widget ranges (slider positions the model exercises).  Each radio option
\* is named by the word the script looks for in its label.
PriceBasisOptions == <<"Bid", "Last", "Ask">>
ReturnSteps == {0, 15}
SafetySteps == {0, 10}

\* Thresholds the filter is compared against (st.sidebar.slider ranges).
ReturnRange == {0, 15, 30}
SafetyRange == {0, 10, 20}

\* ------------------------------------------------------------- sequences
Range(s) == {s[k] : k \in DOMAIN s}

SeqsUpTo(S, n) == UNION {[1..k -> S] : k \in 0..n}

RECURSIVE Flatten(_)
Flatten(ss) == IF ss = <<>> THEN <<>> ELSE Head(ss) \o Flatten(Tail(ss))

\* ------------------------------------------------------------ ticker text
UpperChar(c) == IF c = "n" THEN "N" ELSE IF c = "v" THEN "V" ELSE c

Upper(s) == [k \in DOMAIN s |-> UpperChar(s[k])]

RECURSIVE LStrip(_)
LStrip(s) == IF s # <<>> /\ Head(s) = " " THEN LStrip(Tail(s)) ELSE s

RECURSIVE RStrip(_)
RStrip(s) ==
  IF s # <<>> /\ s[Len(s)] = " " THEN RStrip(SubSeq(s, 1, Len(s) - 1)) ELSE s

Strip(s) == RStrip(LStrip(s))

\* st.sidebar.text_input(...).upper().strip()
NormalizeTicker(raw) == Strip(Upper(raw))

\* ------------------------------------------------------------------ dates
IsLeap(y) == y % 4 = 0 /\ (y % 100 # 0 \/ y % 400 = 0)

DaysInMonth(y, m) ==
  IF m = 2 THEN (IF IsLeap(y) THEN 29 ELSE 28)
  ELSE IF m \in {4, 6, 9, 11} THEN 30 ELSE 31

RECURSIVE DaysBeforeMonth(_, _)
DaysBeforeMonth(y, m) ==
  IF m = 1 THEN 0 ELSE DaysBeforeMonth(y, m - 1) + DaysInMonth(y, m - 1)

DaysBeforeYear(y) ==
  (y - 1) * 365 + ((y - 1) \div 4) - ((y - 1) \div 100) + ((y - 1) \div 400)

\* datetime.strptime(date, "%Y-%m-%d"): the day number of the parsed date.
ToOrdinal(date) ==
  DaysBeforeYear(date[1]) + DaysBeforeMonth(date[1], date[2]) + date[3]

\* (exp_dt - datetime.now()).days: timedelta.days is the floor of the
\* difference in days; exp_dt is midnight of the expiration date.
RawDays(date, t) ==
  (ToOrdinal(date) - ToOrdinal(t.date)) - (IF t.secs > 0 THEN 1 ELSE 0)

\* Variant: the clamp catches a difference of zero only.
DTE_ZeroOnly(date, t) == IF RawDays(date, t) = 0 THEN 1 ELSE RawDays(date, t)

\* if dte <= 0: dte = 1
DTE(date, t) == IF RawDays(date, t) <= 0 THEN 1 ELSE RawDays(date, t)

\* Order of the "YYYY-MM-DD" strings (zero padded, so lexicographic).
DateLess(a, b) ==
  \/ a[1] < b[1]
  \/ a[1] = b[1] /\ a[2] < b[2]
  \/ a[1] = b[1] /\ a[2] = b[2] /\ a[3] < b[3]

\* ---------------------------------------------------------------- doubles
\* An IEEE-754 double, as the script's arithmetic produces it:
\* (-1)^neg x (1 + frac[1]/2^13 + frac[2]/2^26 + frac[3]/2^39 + frac[4]/2^52)
\* x 2^exp, each frac[k] in 0..8191; zero is F64Zero.  Results are rounded to
\* nearest, ties to even.  The integers the model feeds in are below 2^17.
Limb == 8192

F64Zero == [neg |-> FALSE, exp |-> -1023, frac |-> <<0, 0, 0, 0>>]

\* The next double away from zero (the mantissa plus one unit).
F64Up(x) ==
  LET f == x.frac IN
  IF f[4] + 1 < Limb THEN [x EXCEPT !.frac = <<f[1], f[2], f[3], f[4] + 1>>]
  ELSE IF f[3] + 1 < Limb THEN [x EXCEPT !.frac = <<f[1], f[2], f[3] + 1, 0>>]
  ELSE IF f[2] + 1 < Limb THEN [x EXCEPT !.frac = <<f[1], f[2] + 1, 0, 0>>]
  ELSE IF f[1] + 1 < Limb THEN [x EXCEPT !.frac = <<f[1] + 1, 0, 0, 0>>]
  ELSE [x EXCEPT !.frac = <<0, 0, 0, 0>>, !.exp = x.exp + 1]

\* Largest k with q * 2^k <= p, for p >= q > 0.
RECURSIVE FloorLog2(_, _)
FloorLog2(p, q) == IF p < 2 * q THEN 0 ELSE 1 + FloorLog2(p, 2 * q)

\* Smallest k with p * 2^k >= q, for 0 < p < q.
RECURSIVE CeilLog2(_, _)
CeilLog2(p, q) == IF 2 * p >= q THEN 1 ELSE 1 + CeilLog2(2 * p, q)

\* The quotient n / d of two integers as a double (d # 0): float division
\* of two integer-valued operands, correctly rounded.
F64Div(n, d) ==
  IF n = 0 THEN F64Zero
  ELSE
    LET p == IF n < 0 THEN -n ELSE n
        q == IF d < 0 THEN -d ELSE d
        up == p >= q
        k == IF up THEN FloorLog2(p, q) ELSE CeilLog2(p, q)
        num == IF up THEN p ELSE p * (2 ^ k)
        den == IF up THEN q * (2 ^ k) ELSE q
        t1 == (num - den) * Limb
        t2 == (t1 % den) * Limb
        t3 == (t2 % den) * Limb
        t4 == (t3 % den) * Limb
        r == t4 % den
        x == [neg |-> (n < 0) # (d < 0),
              exp |-> IF up THEN k ELSE -k,
              frac |-> <<t1 \div den, t2 \div den, t3 \div den, t4 \div den>>]
    IN IF 2 * r > den \/ (2 * r = den /\ (t4 \div den) % 2 = 1)
         THEN F64Up(x)
         ELSE x

\* An integer as a double (exact).
F64Int(n) == F64Div(n, 1)

\* The product of two doubles, correctly rounded.
F64Mul(x, y) ==
  IF x = F64Zero \/ y = F64Zero THEN F64Zero
  ELSE
    LET a == <<1>> \o x.frac
        b == <<1>> \o y.frac
        \* column sums of the schoolbook product, lowest weight first
        c8 == a[5] * b[5]
        c7 == a[4] * b[5] + a[5] * b[4]
        c6 == a[3] * b[5] + a[4] * b[4] + a[5] * b[3]
        c5 == a[2] * b[5] + a[3] * b[4] + a[4] * b[3] + a[5] * b[2]
        c4 == a[1] * b[5] + a[2] * b[4] + a[3] * b[3] + a[4] * b[2]
                + a[5] * b[1]
        c3 == a[1] * b[4] + a[2] * b[3] + a[3] * b[2] + a[4] * b[1]
        c2 == a[1] * b[3] + a[2] * b[2] + a[3] * b[1]
        c1 == a[1] * b[2] + a[2] * b[1]
        c0 == a[1] * b[1]
        s7 == c7 + (c8 \div Limb)
        s6 == c6 + (s7 \div Limb)
        s5 == c5 + (s6 \div Limb)
        s4 == c4 + (s5 \div Limb)
        s3 == c3 + (s4 \div Limb)
        s2 == c2 + (s3 \div Limb)
        s1 == c1 + (s2 \div Limb)
        d0 == c0 + (s1 \div Limb)
        d1 == s1 % Limb
        d2 == s2 % Limb
        d3 == s3 % Limb
        d4 == s4 % Limb
        d5 == s5 % Limb
        low == (s6 % Limb) + (s7 % Limb) + (c8 % Limb)
        neg == x.neg # y.neg
        half == Limb \div 2
    IN IF d0 = 1
         THEN LET z == [neg |-> neg, exp |-> x.exp + y.exp,
                        frac |-> <<d1, d2, d3, d4>>]
              IN IF d5 > half \/ (d5 = half /\ (low > 0 \/ d4 % 2 = 1))
                   THEN F64Up(z)
                   ELSE z
         ELSE LET g4 == (d3 % 2) * half + (d4 \div 2)
                  z == [neg |-> neg, exp |-> x.exp + y.exp + 1,
                        frac |-> <<(d0 % 2) * half + (d1 \div 2),
                                   (d1 % 2) * half + (d2 \div 2),
                                   (d2 % 2) * half + (d3 \div 2),
                                   g4>>]
              IN IF d4 % 2 = 1 /\ (d5 > 0 \/ low > 0 \/ g4 % 2 = 1)
                   THEN F64Up(z)
                   ELSE z

\* |x| < |y|
F64MagLess(x, y) ==
  \/ x.exp < y.exp
  \/ /\ x.exp = y.exp
     /\ \E k \in 1..4 :
          /\ x.frac[k] < y.frac[k]
          /\ \A n \in 1..(k - 1) : x.frac[n] = y.frac[n]

\* x < y
F64Less(x, y) ==
  IF x.neg /\ ~y.neg THEN TRUE
  ELSE IF ~x.neg /\ y.neg THEN FALSE
  ELSE IF x.neg THEN F64MagLess(y, x)
  ELSE F64MagLess(x, y)

\* x >= y
F64GE(x, y) == ~F64Less(x, y)

\* ------------------------------------------------------------- the price
Truthy(v) == v # Missing /\ v # 0

\* Variant: the fields are tried in the opposite order.
ResolvePrice_Reversed(inf) ==
  IF Truthy(inf.previousClose) THEN inf.previousClose
  ELSE IF Truthy(inf.regularMarketPrice) THEN inf.regularMarketPrice
  ELSE inf.currentPrice

\* info.get('currentPrice') or info.get('regularMarketPrice')
\*   or info.get('previousClose')
ResolvePrice(inf) ==
  IF Truthy(inf.currentPrice) THEN inf.currentPrice
  ELSE IF Truthy(inf.regularMarketPrice) THEN inf.regularMarketPrice
  ELSE inf.previousClose

\* ------------------------------------------------------- the price basis
\* if "Bid" in price_basis ... elif "Last" in price_basis ... else
TargetPriceCol(basis) ==
  IF basis = "Bid" THEN "bid"
  ELSE IF basis = "Last" THEN "lastPrice"
  ELSE "ask"

DisplayPremiumCol(basis) ==
  IF basis = "Bid" THEN "Premium(Bid)"
  ELSE IF basis = "Last" THEN "Premium(Last)"
  ELSE "Premium(Ask)"

\* Variant: the missing value is not filled.
Premium_NoFill(c, col) == c[col]

\* puts[target_price_col].fillna(0)
Premium(c, col) == IF c[col] = Missing THEN 0 ELSE c[col]

\* ------------------------------------------------------------ the metrics
\* (premium / strike) * (365 / dte) * 100
AnnualizedReturn(premium, strike, dte) ==
  F64Mul(F64Mul(F64Div(premium, strike), F64Div(365, dte)), F64Int(100))

\* ((current_price - strike) / current_price) * 100
SafetyMargin(price, strike) ==
  F64Mul(F64Div(price - strike, price), F64Int(100))

\* strike - premium
BreakEven(strike, premium) == strike - premium

\* ------------------------------------------------------------ the filters
\* current_price * 0.7 and current_price * 1.1
BandLow(price) == F64Mul(F64Int(price), F64Div(7, 10))

BandHigh(price) == F64Mul(F64Int(price), F64Div(11, 10))

\* Variant: the OTM filter keeps the strike equal to the price.
InStrikeBand_Inclusive(c, price, otm) ==
  IF otm THEN c.strike <= price
  ELSE /\ F64Less(BandLow(price), F64Int(c.strike))
       /\ F64Less(F64Int(c.strike), BandHigh(price))

\* puts[puts['strike'] < current_price], or
\* puts[(puts['strike'] > current_price * 0.7)
\*      & (puts['strike'] < current_price * 1.1)]
InStrikeBand(c, price, otm) ==
  IF otm THEN c.strike < price
  ELSE /\ F64Less(BandLow(price), F64Int(c.strike))
       /\ F64Less(F64Int(c.strike), BandHigh(price))

\* The frame opt.puts: each contract with its row label (a RangeIndex).
Labelled(puts) ==
  [k \in DOMAIN puts |-> [index |-> k - 1, contract |-> puts[k]]]

StrikeBand(puts, price, otm) ==
  SelectSeq(Labelled(puts), LAMBDA x : InStrikeBand(x.contract, price, otm))

\* One row of the frame after the metric columns are added; it keeps the
\* row label it had in the chain.
MakeRow(x, date, dte, price, col) ==
  LET c == x.contract IN
  [index |-> x.index,
   Expiration |-> date,
   DTE |-> dte,
   strike |-> c.strike,
   premium |-> Premium(c, col),
   AnnualizedReturnPct |-> AnnualizedReturn(Premium(c, col), c.strike, dte),
   SafetyMarginPct |-> SafetyMargin(price, c.strike),
   BreakEven |-> BreakEven(c.strike, Premium(c, col)),
   volume |-> c.volume,
   openInterest |-> c.openInterest]

AddMetrics(puts, date, dte, price, col) ==
  [k \in DOMAIN puts |-> MakeRow(puts[k], date, dte, price, col)]

\* Variant: the return comparison is turned around.
PassesThresholds_Inverted(r, minRet, minSafe) ==
  /\ F64GE(F64Int(minRet), r.AnnualizedReturnPct)
  /\ F64GE(r.SafetyMarginPct, F64Int(minSafe))

\* Variant: the comparisons are strict.
PassesThresholds_Strict(r, minRet, minSafe) ==
  /\ F64Less(F64Int(minRet), r.AnnualizedReturnPct)
  /\ F64Less(F64Int(minSafe), r.SafetyMarginPct)

\* puts[puts['Annualized Return %'] >= min_annualized_return]
\* puts[puts['Safety Margin %'] >= min_safety_margin]
PassesThresholds(r, minRet, minSafe) ==
  /\ F64GE(r.AnnualizedReturnPct, F64Int(minRet))
  /\ F64GE(r.SafetyMarginPct, F64Int(minSafe))

ThresholdFilter(rows, minRet, minSafe) ==
  SelectSeq(rows, LAMBDA r : PassesThresholds(r, minRet, minSafe))

\* The body of the loop for one expiration: the rows it keeps.
ProcessChain(puts, date, t, price, basis, otm, minRet, minSafe) ==
  ThresholdFilter(
    AddMetrics(StrikeBand(puts, price, otm), date, DTE(date, t), price,
               TargetPriceCol(basis)),
    minRet, minSafe)

\* --------------------------------------------------------------- the sort
\* Variant: both keys ascending.
RowBefore_StrikeAscending(r, s) ==
  \/ DateLess(r.Expiration, s.Expiration)
  \/ r.Expiration = s.Expiration /\ r.strike < s.strike

\* sort_values(by=['Expiration', 'strike'], ascending=[True, False]):
\* r goes before s.
RowBefore(r, s) ==
  \/ DateLess(r.Expiration, s.Expiration)
  \/ r.Expiration = s.Expiration /\ r.strike > s.strike

\* Insert r after every row that does not go after it (keeps ties in order).
RECURSIVE InsertRow(_, _)
InsertRow(sorted, r) ==
  IF sorted = <<>> THEN <<r>>
  ELSE IF RowBefore(r, Head(sorted)) THEN <<r>> \o sorted
  ELSE <<Head(sorted)>> \o InsertRow(Tail(sorted), r)

RECURSIVE SortValues(_)
SortValues(df) ==
  IF df = <<>> THEN <<>>
  ELSE InsertRow(SortValues(SubSeq(df, 1, Len(df) - 1)), df[Len(df)])

\* ------------------------------------------------------------------ state
VARIABLES
  ticker,                 \* sidebar: ticker text after .upper().strip()
  price_basis,            \* sidebar: radio choice
  min_annualized_return,  \* sidebar: slider
  min_safety_margin,      \* sidebar: slider
  show_otm_only,          \* sidebar: checkbox
  clock,                  \* index in Instants of the current time
  pc,                     \* position of the running script
  info,                   \* stock.info of this run
  current_price,          \* price resolved from info
  expirations,            \* stock.options of this run
  selected_dates,         \* result of the multiselect
  i,                      \* loop index (1-based) of the next expiration
  all_puts,               \* non-empty per-expiration frames collected so far
  final_df,               \* the table handed to st.dataframe
  messages,               \* st.error / st.warning / st.success shown so far
  table,                  \* the rows st.dataframe rendered
  requests,               \* history: upstream requests issued by this run
  fetched,                \* history: raw chains this run received
  prev                    \* history: the ticker of a run that reached the
                          \* result stage at the current instant, and whether
                          \* that run is the one whose locals are in the state

widgets ==
  <<ticker, price_basis, min_annualized_return, min_safety_margin,
    show_otm_only>>

locals ==
  <<info, current_price, expirations, selected_dates, i, all_puts, final_df,
    messages, table, requests, fetched>>

vars == <<widgets, clock, pc, locals, prev>>

Now == Instants[clock]

NoOutcome == [kind |-> "none", text |-> "", col |-> "", count |-> 0]

\* The last message on the page.
outcome == IF messages = <<>> THEN NoOutcome ELSE messages[Len(messages)]

NoInfo ==
  [currentPrice |-> Missing, regularMarketPrice |-> Missing,
   previousClose |-> Missing]

NoPrev == [ticker |-> <<>>, current |-> FALSE]

Request(api, date) == [api |-> api, date |-> date]

\* st.error / st.warning / st.success calls of the script.
PriceUnavailable ==
  [kind |-> "error_no_price", text |-> "", col |-> "", count |-> 0]

NoExpirations ==
  [kind |-> "error_no_options", text |-> "", col |-> "", count |-> 0]

NoSelection ==
  [kind |-> "warning_no_date", text |-> "", col |-> "", count |-> 0]

\* except Exception as e: st.error(f"... {e}")
TopLevelExcept(e) ==
  [kind |-> "error_exception", text |-> e, col |-> "", count |-> 0]

Success(basis, df) ==
  [kind |-> "success", text |-> "", col |-> DisplayPremiumCol(basis),
   count |-> Len(df)]

NoMatch(basis) ==
  [kind |-> "warning_no_match", text |-> "", col |-> DisplayPremiumCol(basis),
   count |-> 0]

IsError(o) ==
  o.kind \in {"error_no_price", "error_no_options", "error_exception"}

\* expirations[:3] if len(expirations) >= 3 else expirations
DefaultExp(exps) == IF Len(exps) >= 3 THEN SubSeq(exps, 1, 3) ELSE exps

\* What the feed may list as expirations: the first dates of AllDates.
ExpirationLists ==
  {SubSeq(AllDates, 1, k) : k \in 0..MaxExp}

IsDistinct(s) == \A a, b \in DOMAIN s : a # b => s[a] # s[b]

\* What st.multiselect may return: the default, or the user's own choice in
\* the order of selection.
Selections(exps) ==
  {DefaultExp(exps)} \cup
  {s \in SeqsUpTo(Range(exps), MaxExp) : IsDistinct(s)}

\* The rows of a listing at the positions I, in the order of the listing.
RECURSIVE Pick(_, _, _)
Pick(listing, I, k) ==
  IF k > Len(listing) THEN <<>>
  ELSE (IF k \in I THEN <<listing[k]>> ELSE <<>>) \o Pick(listing, I, k + 1)

\* What stock.option_chain(date).puts may hold: any of the contracts listed
\* at the date.
ChainResponses(date) ==
  {Pick(ListedAt(date), I, 1) : I \in SUBSET DOMAIN ListedAt(date)}

\* ------------------------------------------------------------------- init
Init ==
  /\ ticker = <<"N", "V">>
  /\ price_basis = PriceBasisOptions[1]
  /\ min_annualized_return = 15
  /\ min_safety_margin = 10
  /\ show_otm_only = TRUE
  /\ clock \in DOMAIN Instants
  /\ pc = "start"
  /\ info = NoInfo
  /\ current_price = Missing
  /\ expirations = <<>>
  /\ selected_dates = <<>>
  /\ i = 1
  /\ all_puts = <<>>
  /\ final_df = <<>>
  /\ messages = <<>>
  /\ table = <<>>
  /\ requests = <<>>
  /\ fetched = <<>>
  /\ prev = NoPrev

\* ------------------------------------------------ the user and the clock
\* Streamlit runs the script again from the top with fresh locals.
Rerun ==
  /\ pc = "done"
  /\ pc' = "start"
  /\ info' = NoInfo
  /\ current_price' = Missing
  /\ expirations' = <<>>
  /\ selected_dates' = <<>>
  /\ i' = 1
  /\ all_puts' = <<>>
  /\ final_df' = <<>>
  /\ messages' = <<>>
  /\ table' = <<>>
  /\ requests' = <<>>
  /\ fetched' = <<>>
  /\ prev' = [prev EXCEPT !.current = FALSE]
  /\ UNCHANGED clock

EnterTicker ==
  /\ Rerun
  /\ \E raw \in RawTickers : ticker' = NormalizeTicker(raw)
  /\ UNCHANGED <<price_basis, min_annualized_return, min_safety_margin,
                 show_otm_only>>

ChoosePriceBasis ==
  /\ Rerun
  /\ \E k \in DOMAIN PriceBasisOptions :
       /\ PriceBasisOptions[k] # price_basis
       /\ price_basis' = PriceBasisOptions[k]
  /\ UNCHANGED <<ticker, min_annualized_return, min_safety_margin,
                 show_otm_only>>

SlideMinReturn ==
  /\ Rerun
  /\ \E a \in ReturnSteps \ {min_annualized_return} :
       min_annualized_return' = a
  /\ UNCHANGED <<ticker, price_basis, min_safety_margin, show_otm_only>>

SlideMinSafety ==
  /\ Rerun
  /\ \E s \in SafetySteps \ {min_safety_margin} : min_safety_margin' = s
  /\ UNCHANGED <<ticker, price_basis, min_annualized_return, show_otm_only>>

ToggleOtm ==
  /\ Rerun
  /\ show_otm_only' = ~show_otm_only
  /\ UNCHANGED <<ticker, price_basis, min_annualized_return,
                 min_safety_margin>>

\* Time passes, between two runs or in the middle of one.
Tick ==
  /\ clock < Len(Instants)
  /\ clock' = clock + 1
  /\ prev' = NoPrev
  /\ UNCHANGED <<widgets, pc, locals>>

\* ------------------------------------------------------------- the script
\* if ticker: is false, the script shows the title and ends.
SkipEmptyTicker ==
  /\ pc = "start"
  /\ ticker = <<>>
  /\ pc' = "done"
  /\ UNCHANGED <<widgets, clock, locals, prev>>

\* stock.info, the price resolution and the check that stops the script.
FetchInfo ==
  /\ pc = "start"
  /\ ticker # <<>>
  /\ requests' = Append(requests, Request("info", <<>>))
  /\ \E r \in InfoResponses :
       /\ info' = r
       /\ current_price' = ResolvePrice(r)
       /\ IF ~Truthy(ResolvePrice(r))
            THEN messages' = Append(messages, PriceUnavailable) /\ pc' = "done"
            ELSE messages' = messages /\ pc' = "options"
  /\ UNCHANGED <<widgets, clock, expirations, selected_dates, i, all_puts,
                 final_df, table, fetched,
                 prev>>

FetchInfoFails ==
  /\ pc = "start"
  /\ ticker # <<>>
  /\ requests' = Append(requests, Request("info", <<>>))
  /\ \E e \in FeedFailures : messages' = Append(messages, TopLevelExcept(e))
  /\ pc' = "done"
  /\ UNCHANGED <<widgets, clock, info, current_price, expirations,
                 selected_dates, i, all_puts, final_df, table, fetched,
                 prev>>

\* stock.options and the check that stops the script.
FetchExpirations ==
  /\ pc = "options"
  /\ requests' = Append(requests, Request("options", <<>>))
  /\ \E exps \in ExpirationLists :
       /\ expirations' = exps
       /\ IF exps = <<>>
            THEN messages' = Append(messages, NoExpirations) /\ pc' = "done"
            ELSE messages' = messages /\ pc' = "select"
  /\ UNCHANGED <<widgets, clock, info, current_price, selected_dates, i,
                 all_puts, final_df, table, fetched,
                 prev>>

FetchExpirationsFails ==
  /\ pc = "options"
  /\ requests' = Append(requests, Request("options", <<>>))
  /\ \E e \in FeedFailures : messages' = Append(messages, TopLevelExcept(e))
  /\ pc' = "done"
  /\ UNCHANGED <<widgets, clock, info, current_price, expirations,
                 selected_dates, i, all_puts, final_df, table, fetched,
                 prev>>

\* st.multiselect and the check that stops the script.
SelectDates ==
  /\ pc = "select"
  /\ \E sel \in Selections(expirations) :
       /\ selected_dates' = sel
       /\ IF sel = <<>>
            THEN messages' = Append(messages, NoSelection) /\ pc' = "done"
            ELSE messages' = messages /\ pc' = "loop"
  /\ i' = 1
  /\ all_puts' = <<>>
  /\ UNCHANGED <<widgets, clock, info, current_price, expirations, final_df,
                 table, requests, fetched, prev>>

\* One turn of the loop: fetch the chain of selected_dates[i], filter it,
\* add the metrics, apply the thresholds, keep the frame if it is not empty.
FetchChain ==
  /\ pc = "loop"
  /\ LET date == selected_dates[i] IN
       /\ requests' = Append(requests, Request("option_chain", date))
       /\ \E puts \in ChainResponses(date) :
            LET rows == ProcessChain(puts, date, Now, current_price,
                                     price_basis, show_otm_only,
                                     min_annualized_return, min_safety_margin)
            IN /\ all_puts' =
                    IF rows # <<>> THEN Append(all_puts, rows) ELSE all_puts
               /\ fetched' =
                    Append(fetched, [date |-> date, puts |-> puts, at |-> clock])
  /\ i' = i + 1
  /\ pc' = IF i = Len(selected_dates) THEN "show" ELSE "loop"
  /\ UNCHANGED <<widgets, clock, info, current_price, expirations,
                 selected_dates, final_df, table, messages, prev>>

\* stock.option_chain raises: the exception leaves the loop and the try.
FetchChainFails ==
  /\ pc = "loop"
  /\ requests' = Append(requests, Request("option_chain", selected_dates[i]))
  /\ \E e \in FeedFailures : messages' = Append(messages, TopLevelExcept(e))
  /\ pc' = "done"
  /\ UNCHANGED <<widgets, clock, info, current_price, expirations,
                 selected_dates, i, all_puts, final_df, table, fetched,
                 prev>>

\* final_df.style...background_gradient(...) handed to st.dataframe: the
\* Styler refuses a frame whose row labels are not unique.
HasDuplicateLabels(df) ==
  \E j, k \in DOMAIN df : j # k /\ df[j].index = df[k].index

\* After the loop: concat, sort, rename, success message and the styled
\* table; or the warning.  pd.concat keeps the row labels of each chain, so
\* rows of two expirations may carry the same label; the Styler then raises
\* inside the try and the run ends with the error message, without a table.
ShowResults ==
  /\ pc = "show"
  /\ IF all_puts # <<>>
       THEN LET df == SortValues(Flatten(all_puts)) IN
            /\ final_df' = df
            /\ IF HasDuplicateLabels(df)
                 THEN /\ \E e \in StylerErrors :
                           messages' = messages \o
                             <<Success(price_basis, df), TopLevelExcept(e)>>
                      /\ table' = table
                 ELSE /\ messages' = Append(messages, Success(price_basis, df))
                      /\ table' = df
       ELSE /\ final_df' = final_df
            /\ table' = table
            /\ messages' = Append(messages, NoMatch(price_basis))
  /\ pc' = "done"
  /\ prev' = [ticker |-> ticker, current |-> TRUE]
  /\ UNCHANGED <<widgets, clock, info, current_price, expirations,
                 selected_dates, i, all_puts, requests, fetched>>

Next ==
  \/ EnterTicker
  \/ ChoosePriceBasis
  \/ SlideMinReturn
  \/ SlideMinSafety
  \/ ToggleOtm
  \/ Tick
  \/ SkipEmptyTicker
  \/ FetchInfo
  \/ FetchInfoFails
  \/ FetchExpirations
  \/ FetchExpirationsFails
  \/ SelectDates
  \/ FetchChain
  \/ FetchChainFails
  \/ ShowResults

Spec == Init /\ [][Next]_vars

\* ------------------------------------------------- vocabulary of the claims
\* The run ended after the loop: it built its table (possibly empty) and
\* handed it to the page.
ResultStage ==
  /\ pc = "done"
  /\ selected_dates # <<>>
  /\ Len(fetched) = Len(selected_dates)

\* Every row the run holds: the collected frames and the final table.
HeldRows == Range(Flatten(all_puts)) \cup Range(final_df)

\* Positions <<k, j>> of the raw contracts this run received.
FetchedAt ==
  UNION {{<<k, j>> : j \in DOMAIN fetched[k].puts} : k \in DOMAIN fetched}

ContractAt(kj) == fetched[kj[1]].puts[kj[2]]

\* Days to expiration of a received chain, as the data model defines it.
ClampedDays(f) ==
  IF RawDays(f.date, Instants[f.at]) <= 0
    THEN 1
    ELSE RawDays(f.date, Instants[f.at])

\* Premium of a contract under a price basis, as the data model defines it.
BasisPremium(c, basis) ==
  LET v == IF basis = "Bid" THEN c.bid
           ELSE IF basis = "Last" THEN c.lastPrice
           ELSE c.ask
  IN IF v = Missing THEN 0 ELSE v

\* annualizedReturnPct >= a, for premium/strike x 365/dte x 100 in doubles.
ReturnAtLeast(c, f, basis, a) ==
  F64GE(F64Mul(F64Mul(F64Div(BasisPremium(c, basis), c.strike),
                      F64Div(365, ClampedDays(f))),
               F64Int(100)),
        F64Int(a))

\* safetyMarginPct >= s, for (currentPrice - strike)/currentPrice x 100 in
\* doubles.
SafetyAtLeast(c, s) ==
  F64GE(F64Mul(F64Div(current_price - c.strike, current_price), F64Int(100)),
        F64Int(s))

\* The row that shows contract kj in the output.
Shows(r, kj) ==
  LET c == ContractAt(kj)
      f == fetched[kj[1]]
  IN /\ r.index = kj[2] - 1
     /\ r.Expiration = f.date
     /\ r.DTE = ClampedDays(f)
     /\ r.strike = c.strike
     /\ r.premium = BasisPremium(c, price_basis)
     /\ r.volume = c.volume
     /\ r.openInterest = c.openInterest

Emitted(kj) == \E k \in DOMAIN final_df : Shows(final_df[k], kj)

\* The frame of this run before the threshold filter: the contracts of the
\* received chains that pass the strike band, with their metrics.
MetricFrame ==
  Flatten(
    [k \in DOMAIN fetched |->
       AddMetrics(StrikeBand(fetched[k].puts, current_price, show_otm_only),
                  fetched[k].date, DTE(fetched[k].date, Instants[fetched[k].at]),
                  current_price, TargetPriceCol(price_basis))])

\* The table the script makes of the chains of this run under the
\* thresholds a and s.
ResultFor(a, s) == SortValues(ThresholdFilter(MetricFrame, a, s))

ChainRequests == SelectSeq(requests, LAMBDA q : q.api = "option_chain")

\* A chain request of this run failed.
ChainFailed == pc = "done" /\ Len(ChainRequests) > Len(fetched)

\* ----------------------------------------------------------------- claims

\* C1: a run in which one chain fetch fails and another succeeds still emits
\* the rows of the succeeding expirations and surfaces no top-level error.
C1_PartialFailureTolerated ==
  (ChainFailed /\ fetched # <<>>) =>
    /\ ~IsError(outcome)
    /\ final_df = ResultFor(min_annualized_return, min_safety_margin)

\* C2: a run that follows, within the TTL window and for the same ticker, a
\* run that reached the result stage issues no upstream request.
C2_NoRefetchWithinTTL ==
  (ticker # <<>> /\ prev.ticker = ticker /\ ~prev.current) =>
    requests = <<>>

\* C3: every row has dte >= 1; a day difference <= 0 is clamped to 1, the
\* annualized return is premium/strike x 365/dte x 100 computed with the
\* clamped value (and lies within 1 of the exact quotient), and the
\* computation raises no error: the run goes on after the chain, an error it
\* ends with comes from the feed or from the styled table, and a result whose
\* row labels are distinct ends without any error.
C3_DteAtLeastOne ==
  /\ \A r \in HeldRows :
       /\ r.DTE >= 1
       /\ r.AnnualizedReturnPct =
            F64Mul(F64Mul(F64Div(r.premium, r.strike), F64Div(365, r.DTE)),
                   F64Int(100))
       /\ LET q == (r.premium * 36500) \div (r.strike * r.DTE)
          IN /\ F64Less(F64Int(q - 1), r.AnnualizedReturnPct)
             /\ F64Less(r.AnnualizedReturnPct, F64Int(q + 2))
       /\ \E k \in DOMAIN fetched :
            /\ fetched[k].date = r.Expiration
            /\ RawDays(r.Expiration, Instants[fetched[k].at]) <= 0 => r.DTE = 1
            /\ RawDays(r.Expiration, Instants[fetched[k].at]) > 0 =>
                 r.DTE = RawDays(r.Expiration, Instants[fetched[k].at])
  /\ (fetched # <<>> /\ pc \in {"loop", "show"}) => messages = <<>>
  /\ (fetched # <<>> /\ pc = "done" /\ IsError(outcome)) =>
       outcome.text \in FeedFailures \cup StylerErrors
  /\ (ResultStage /\ ~HasDuplicateLabels(final_df)) =>
       \A k \in DOMAIN messages : ~IsError(messages[k])

\* A table holds a row of an expiration that lies on or before the current
\* date, with dte 1, and the run ended with the table on the page.
C3_Witness ==
  /\ ResultStage
  /\ \E k \in DOMAIN final_df, n \in DOMAIN fetched :
       /\ fetched[n].date = final_df[k].Expiration
       /\ RawDays(fetched[n].date, Instants[fetched[n].at]) < 0
       /\ final_df[k].DTE = 1
       /\ final_df[k].premium > 0
  /\ outcome.kind = "success"
  /\ table = final_df

\* C4: with the raw chains, the price, the basis and otmOnly fixed, raising
\* either threshold above those of the run yields a subset of the rows of
\* the run, never more rows; the table of the run is the result for the
\* thresholds of the sliders.
C4_FilterMonotonic ==
  ResultStage =>
    LET frame == MetricFrame
        lo == ThresholdFilter(frame, min_annualized_return, min_safety_margin)
    IN /\ final_df = SortValues(lo)
       /\ \A a1 \in ReturnRange, s1 \in SafetyRange :
            (min_annualized_return <= a1 /\ min_safety_margin <= s1) =>
              LET hi == ThresholdFilter(frame, a1, s1)
              IN /\ Range(hi) \subseteq Range(lo)
                 /\ Len(hi) <= Len(lo)

\* A table with rows that a higher return threshold and a higher safety
\* threshold each shrink.
C4_Witness ==
  /\ ResultStage
  /\ Len(final_df) >= 2
  /\ \E a1 \in ReturnRange :
       /\ a1 > min_annualized_return
       /\ Len(ResultFor(a1, min_safety_margin)) < Len(final_df)
       /\ Len(ResultFor(a1, min_safety_margin)) > 0
  /\ \E s1 \in SafetyRange :
       /\ s1 > min_safety_margin
       /\ Len(ResultFor(min_annualized_return, s1)) < Len(final_df)

\* C5: the table is ordered by expiration ascending and, within an
\* expiration, by strike descending; rows equal on both keys keep the order
\* in which they were fetched.
C5_SortedStable ==
  /\ \A j, k \in DOMAIN final_df :
       j < k =>
         \/ DateLess(final_df[j].Expiration, final_df[k].Expiration)
         \/ /\ final_df[j].Expiration = final_df[k].Expiration
            /\ final_df[j].strike >= final_df[k].strike
  /\ \A r \in Range(final_df) :
       SelectSeq(final_df,
                 LAMBDA x : x.Expiration = r.Expiration /\ x.strike = r.strike)
         = SelectSeq(Flatten(all_puts),
                 LAMBDA x : x.Expiration = r.Expiration /\ x.strike = r.strike)
  /\ ResultStage => Len(final_df) = Len(Flatten(all_puts))

\* A table that the sort reordered and that holds two different rows with
\* the same expiration and strike.
C5_Witness ==
  /\ ResultStage
  /\ final_df # Flatten(all_puts)
  /\ \E j, k \in DOMAIN final_df :
       /\ j < k
       /\ final_df[j].Expiration = final_df[k].Expiration
       /\ final_df[j].strike = final_df[k].strike
       /\ final_df[j] # final_df[k]
  /\ \E j, k \in DOMAIN final_df :
       /\ final_df[j].Expiration = final_df[k].Expiration
       /\ final_df[j].strike > final_df[k].strike

\* C6: a contract that passes the strike band is in the table if and only
\* if its annualized return and its safety margin both reach the thresholds
\* (inclusive); the table holds nothing else.
C6_ThresholdFilterExact ==
  ResultStage =>
    LET band == {kj \in FetchedAt :
                   InStrikeBand(ContractAt(kj), current_price, show_otm_only)}
        kept == {kj \in band :
                   /\ ReturnAtLeast(ContractAt(kj), fetched[kj[1]],
                                    price_basis, min_annualized_return)
                   /\ SafetyAtLeast(ContractAt(kj), min_safety_margin)}
    IN /\ \A kj \in band : Emitted(kj) <=> kj \in kept
       /\ \A r \in Range(final_df) :
            /\ ~F64Less(r.AnnualizedReturnPct, F64Int(min_annualized_return))
            /\ ~F64Less(r.SafetyMarginPct, F64Int(min_safety_margin))
       /\ Len(final_df) = Cardinality(kept)

\* A table with a row whose annualized return equals the positive return
\* threshold and whose safety margin equals the positive safety threshold,
\* while another contract of the band was dropped.
C6_Witness ==
  /\ ResultStage
  /\ min_annualized_return > 0
  /\ min_safety_margin > 0
  /\ \E r \in Range(final_df) :
       /\ r.AnnualizedReturnPct = F64Int(min_annualized_return)
       /\ r.SafetyMarginPct = F64Int(min_safety_margin)
  /\ \E kj \in FetchedAt :
       /\ InStrikeBand(ContractAt(kj), current_price, show_otm_only)
       /\ ~Emitted(kj)

\* C7: the current price is the first non-empty (present and non-zero) value
\* of currentPrice, regularMarketPrice, previousClose; if there is none the
\* run ends with the price error, having asked the feed for nothing else and
\* holding no rows.
C7_PriceResolution ==
  (requests # <<>> /\ info # NoInfo) =>
    LET fields == <<info.currentPrice, info.regularMarketPrice,
                    info.previousClose>>
        found == {k \in 1..3 : fields[k] # Missing /\ fields[k] # 0}
    IN /\ found # {} =>
            /\ \E k \in found :
                 /\ \A n \in found : k <= n
                 /\ current_price = fields[k]
            /\ outcome # PriceUnavailable
       /\ found = {} =>
            /\ pc = "done"
            /\ outcome = PriceUnavailable
            /\ requests = <<Request("info", <<>>)>>
            /\ HeldRows = {}

\* A run that found no price although the feed answered (with a zero).
C7_Witness ==
  /\ pc = "done"
  /\ outcome = PriceUnavailable
  /\ info.regularMarketPrice = 0
  /\ requests = <<Request("info", <<>>)>>

\* C8: a rate-limit failure is reported as an outcome of another kind than
\* any other feed failure.
C8_RateLimitedDistinct ==
  (pc = "done" /\ outcome.text = RateLimitError) =>
    \A e \in FeedFailures \ {RateLimitError} :
      outcome.kind # TopLevelExcept(e).kind

\* C9: the premium of a row is the bid, lastPrice or ask of its contract as
\* the price basis says, 0 if that value is missing; a zero premium gives
\* return 0 and break-even = strike, is no error, and the contract is in the
\* table exactly when the return threshold is 0 and the other filters pass.
C9_PremiumByBasis ==
  /\ \A r \in HeldRows :
       /\ \E kj \in FetchedAt : Shows(r, kj)
       /\ r.BreakEven = r.strike - r.premium
       /\ r.premium = 0 =>
            /\ r.AnnualizedReturnPct = F64Zero
            /\ r.BreakEven = r.strike
  /\ ResultStage =>
       \A kj \in FetchedAt :
         BasisPremium(ContractAt(kj), price_basis) = 0 =>
           (Emitted(kj) <=>
              /\ min_annualized_return = 0
              /\ InStrikeBand(ContractAt(kj), current_price, show_otm_only)
              /\ SafetyAtLeast(ContractAt(kj), min_safety_margin))
  /\ (pc = "show" /\ \E kj \in FetchedAt :
                       BasisPremium(ContractAt(kj), price_basis) = 0) =>
       messages = <<>>

\* A table under the Last basis with a row whose lastPrice is missing
\* (premium 0), next to a row with a positive premium.
C9_Witness ==
  /\ ResultStage
  /\ price_basis = "Last"
  /\ \E kj \in FetchedAt :
       /\ ContractAt(kj).lastPrice = Missing
       /\ Emitted(kj)
  /\ \E r \in Range(final_df) : r.premium > 0 /\ r.premium = r.strike - r.BreakEven

\* C10: every row has strike <= current price, and strike < current price
\* when only OTM contracts are shown; a contract above the price never
\* contributes a row.
C10_StrikeAtMostPrice ==
  /\ \A r \in HeldRows :
       /\ r.strike <= current_price
       /\ show_otm_only => r.strike < current_price
  /\ ResultStage =>
       \A kj \in FetchedAt :
         ContractAt(kj).strike > current_price => ~Emitted(kj)

\* Without the OTM filter: a contract in the upper part of the band was
\* fetched and left out, and the table holds a row at strike = price.
C10_Witness ==
  /\ ResultStage
  /\ ~show_otm_only
  /\ \E kj \in FetchedAt :
       /\ ContractAt(kj).strike > current_price
       /\ InStrikeBand(ContractAt(kj), current_price, show_otm_only)
  /\ \E r \in Range(final_df) : r.strike = current_price

====
